---------------------------- MODULE Spec2Model ----------------------------
(***************************************************************************)
(* GoSynth (src/main.go): one run of the tool.  The main goroutine lists   *)
(* the device folder, fetches catalog page 1, fans out one goroutine per   *)
(* catalog page, joins them, reconciles the catalog against the device     *)
(* file list and then downloads and pushes every missing beatmap, one      *)
(* after the other.                                                        *)
(*                                                                         *)
(* Device discovery and selection (main.go:246-268) precede everything     *)
(* modelled here; a run that gets this far holds a non-empty serial        *)
(* (strings.Fields never yields an empty field), so the nil *exec.Cmd of   *)
(* main.go:224-229 is not reachable.                                       *)
(***************************************************************************)
EXTENDS Integers, Sequences, FiniteSets, TLC

\* Largest pageCount the catalog endpoint reports in the model.
MaxPages == 2

Pages == 1..MaxPages

\* Beatmap (main.go:26-29).
BmA == [Filename |-> "a.synth", DownloadUrl |-> "/dl/a"]
BmB == [Filename |-> "b.synth", DownloadUrl |-> "/dl/b"]

\* The Data arrays a catalog page may hold.
PageChoices == { <<>>, <<BmA>>, <<BmA, BmB>>, <<BmB, BmA>>, <<BmA, BmB, BmA>> }

\* The listings `adb shell ls` may produce (non-empty lines, in order).
DeviceLists == { <<>>, <<"a.synth">>, <<"b.synth">>, <<"a.synth", "b.synth">> }

VARIABLES
    catalog,      \* server side: page index -> Data of that page
    pageCount,    \* server side: the pageCount every response reports
    pc,           \* position of the main goroutine
    files,        \* main: files (result of listDeviceFolder)
    listFailed,   \* listDeviceFolder took its error branch
    totalPages,   \* fetchAllPagesConcurrently: totalPages
    pageNum,      \* fetchAllPagesConcurrently: loop variable
    wg,           \* sync.WaitGroup counter
    task,         \* position of the goroutine launched for each page
    got,          \* value returned by fetchPage inside each goroutine
    results,      \* buffered channel: its queue
    closed,       \* buffered channel: closed
    allPages,     \* fetchAllPagesConcurrently / main: allPages
    missing,      \* main: missing
    syncIdx,      \* main: index of the range loop over missing (1-based)
    step,         \* position inside downloadAndPushBeatmap
    calls,        \* beatmaps downloadAndPushBeatmap was invoked with, in order
    logged,       \* loop indices whose call returned an error (main.go:320)
    pushed,       \* beatmaps whose adb push succeeded, in order
    inFlight,     \* adb push subprocesses running
    tmpFiles,     \* names present in os.TempDir()
    fetchFailed,  \* some fetchPage call met a request or decode error
    exited,       \* os.Exit(1) was called by log.Fatalf
    panicked      \* the runtime panicked

vars == << catalog, pageCount, pc, files, listFailed, totalPages, pageNum, wg,
           task, got, results, closed, allPages, missing, syncIdx, step, calls,
           logged, pushed, inFlight, tmpFiles, fetchFailed, exited, panicked >>

srv      == << catalog, pageCount >>
listVars == << files, listFailed >>
fanVars  == << totalPages, pageNum, wg, task, got, results, closed, allPages >>
syncVars == << missing, syncIdx, step, calls, logged, pushed, inFlight, tmpFiles >>
endVars  == << fetchFailed, exited, panicked >>

\* BeatmapPage zero value (main.go:55).
ZeroPage == [Data |-> <<>>, Page |-> 0, PageCount |-> 0]

\* The decoded body of GET <endpoint>?page=p (main.go:47-60).
Response(p) ==
    [Data      |-> IF p \in 1..pageCount THEN catalog[p] ELSE <<>>,
     Page      |-> p,
     PageCount |-> pageCount]

\* A goroutine or subprocess of the process can take a step: os.Exit and an
\* unrecovered panic end all of them at once.
RunningAfterExit == TRUE
Running == ~exited /\ ~panicked

\* The state when main reaches listDeviceFolder (main.go:271).  The server
\* reports a pageCount of 0..MaxPages; a negative one would panic in make
\* (main.go:65) before any goroutine is launched.
Init ==
    /\ pageCount \in 0..MaxPages
    /\ catalog \in [1..pageCount -> PageChoices]
    /\ pc = "list"
    /\ files = <<>>
    /\ listFailed = FALSE
    /\ totalPages = 0
    /\ pageNum = 0
    /\ wg = 0
    /\ task = [i \in Pages |-> "none"]
    /\ got = [i \in Pages |-> ZeroPage]
    /\ results = <<>>
    /\ closed = FALSE
    /\ allPages = <<>>
    /\ missing = <<>>
    /\ syncIdx = 0
    /\ step = "idle"
    /\ calls = <<>>
    /\ logged = <<>>
    /\ pushed = <<>>
    /\ inFlight = 0
    /\ tmpFiles = {}
    /\ fetchFailed = FALSE
    /\ exited = FALSE
    /\ panicked = FALSE

-----------------------------------------------------------------------------
(* listDeviceFolder, main.go:172-195, called at main.go:271 *)

\* What listDeviceFolder returns when cmd.Output() fails: nil.
ListErrorKeepsOutput(out) == out
ListErrorResult(out) == <<>>

ListDeviceFolderOk ==
    /\ Running /\ pc = "list"
    /\ \E lines \in DeviceLists : files' = lines
    /\ pc' = "first"
    /\ UNCHANGED << srv, listFailed, fanVars, syncVars, endVars >>

ListDeviceFolderErr ==
    /\ Running /\ pc = "list"
    /\ \E out \in DeviceLists : files' = ListErrorResult(out)
    /\ listFailed' = TRUE
    /\ pc' = "first"
    /\ UNCHANGED << srv, fanVars, syncVars, endVars >>

-----------------------------------------------------------------------------
(* fetchPage(1) of main, main.go:277, and log.Fatalf of fetchPage *)

FetchFirstOk ==
    /\ Running /\ pc = "first"
    /\ totalPages' = Response(1).PageCount
    /\ pageNum' = 1
    /\ pc' = "spawn"
    /\ UNCHANGED << srv, listVars, wg, task, got, results, closed, allPages,
                    syncVars, endVars >>

FetchFirstErr ==
    /\ Running /\ pc = "first"
    /\ fetchFailed' = TRUE
    /\ pc' = "fatal"
    /\ UNCHANGED << srv, listVars, fanVars, syncVars, exited, panicked >>

\* log.Fatalf (main.go:51, 57) in the main goroutine: os.Exit(1).
MainFatal ==
    /\ Running /\ pc = "fatal"
    /\ exited' = TRUE
    /\ UNCHANGED << srv, pc, listVars, fanVars, syncVars, fetchFailed, panicked >>

-----------------------------------------------------------------------------
(* fetchAllPagesConcurrently, main.go:63-86 *)

\* make(chan BeatmapPage, totalPages), main.go:65.
ChanCapShort == totalPages - 1
ChanCap == totalPages

\* for pageNum := 1; pageNum <= totalPages; pageNum++, main.go:67.
LoopCond == pageNum <= totalPages

\* page := pageNum (main.go:69): the goroutine for page i fetches page i.
LoopVarPage(i) == pageNum
CapturedPage(i) == i

\* wg.Wait() (main.go:77) returns when the counter is zero.
WaitNeverBlocks == TRUE
WaitReturns == wg = 0

\* main.go:67-75, one iteration: wg.Add(1) and the go statement.
Spawn ==
    /\ Running /\ pc = "spawn"
    /\ LoopCond
    /\ wg' = wg + 1
    /\ task' = [task EXCEPT ![pageNum] = "fetch"]
    /\ pageNum' = pageNum + 1
    /\ UNCHANGED << srv, pc, listVars, totalPages, got, results, closed,
                    allPages, syncVars, endVars >>

SpawnEnd ==
    /\ Running /\ pc = "spawn"
    /\ ~LoopCond
    /\ pc' = "wait"
    /\ UNCHANGED << srv, listVars, fanVars, syncVars, endVars >>

\* fetchPage in the goroutine on a request or decode error: log.Fatalf.
ReturnZeroPage(i) ==
    /\ task' = [task EXCEPT ![i] = "send"]
    /\ got' = [got EXCEPT ![i] = ZeroPage]
OnFetchError(i) ==
    /\ task' = [task EXCEPT ![i] = "fatal"]
    /\ got' = got

\* fetchPage(page) returns the decoded page (main.go:73, 46-60).
TaskFetchOk(i) ==
    /\ Running /\ task[i] = "fetch"
    /\ got' = [got EXCEPT ![i] = Response(CapturedPage(i))]
    /\ task' = [task EXCEPT ![i] = "send"]
    /\ UNCHANGED << srv, pc, listVars, totalPages, pageNum, wg, results,
                    closed, allPages, syncVars, endVars >>

\* client.Get or Decode fails (main.go:50, 56).
TaskFetchErr(i) ==
    /\ Running /\ task[i] = "fetch"
    /\ fetchFailed' = TRUE
    /\ OnFetchError(i)
    /\ UNCHANGED << srv, pc, listVars, totalPages, pageNum, wg, results,
                    closed, allPages, syncVars, exited, panicked >>

\* log.Fatalf in a goroutine: os.Exit(1), deferred calls do not run.
TaskFatal(i) ==
    /\ Running /\ task[i] = "fatal"
    /\ exited' = TRUE
    /\ UNCHANGED << srv, pc, listVars, fanVars, syncVars, fetchFailed, panicked >>

\* results <- page (main.go:73): blocks while the buffer is full, panics on
\* a closed channel.
TaskSend(i) ==
    /\ Running /\ task[i] = "send"
    /\ closed \/ Len(results) < ChanCap
    /\ IF closed
       THEN /\ panicked' = TRUE
            /\ UNCHANGED << results, task >>
       ELSE /\ results' = Append(results, got[i])
            /\ task' = [task EXCEPT ![i] = "sent"]
            /\ panicked' = panicked
    /\ UNCHANGED << srv, pc, listVars, totalPages, pageNum, wg, got, closed,
                    allPages, syncVars, fetchFailed, exited >>

\* defer wg.Done() (main.go:72); a negative counter panics.
TaskDone(i) ==
    /\ Running /\ task[i] = "sent"
    /\ IF wg - 1 < 0
       THEN /\ panicked' = TRUE
            /\ UNCHANGED << wg, task >>
       ELSE /\ wg' = wg - 1
            /\ task' = [task EXCEPT ![i] = "done"]
            /\ panicked' = panicked
    /\ UNCHANGED << srv, pc, listVars, totalPages, pageNum, got, results,
                    closed, allPages, syncVars, fetchFailed, exited >>

\* wg.Wait(), main.go:77.
Wait ==
    /\ Running /\ pc = "wait"
    /\ WaitReturns
    /\ pc' = "close"
    /\ UNCHANGED << srv, listVars, fanVars, syncVars, endVars >>

\* close(results), main.go:78.
Close ==
    /\ Running /\ pc = "close"
    /\ closed' = TRUE
    /\ pc' = "drain"
    /\ UNCHANGED << srv, listVars, totalPages, pageNum, wg, task, got, results,
                    allPages, syncVars, endVars >>

\* for page := range results, one iteration (main.go:81-83).
Drain ==
    /\ Running /\ pc = "drain"
    /\ results # <<>>
    /\ allPages' = Append(allPages, Head(results))
    /\ results' = Tail(results)
    /\ UNCHANGED << srv, pc, listVars, totalPages, pageNum, wg, task, got,
                    closed, syncVars, endVars >>

\* The range loop ends on the closed, empty channel; return allPages
\* (main.go:85, 280).
Return ==
    /\ Running /\ pc = "drain"
    /\ results = <<>> /\ closed
    /\ pc' = "reconcile"
    /\ UNCHANGED << srv, listVars, fanVars, syncVars, endVars >>

-----------------------------------------------------------------------------
(* Reconciliation, main.go:287-302 *)

\* deviceFilesMap (main.go:288-291): the keys mapped to true.
DeviceFilesMap(fs) == { fs[k] : k \in 1..Len(fs) }

\* if !deviceFilesMap[beatmap.Filename] (main.go:298).
AlwaysAbsent(m, b) == TRUE
Absent(m, b) == b.Filename \notin m

\* The inner loop over page.Data (main.go:297-301), appending to acc.
MissingOfPage(acc, data, m) ==
    acc \o SelectSeq(data, LAMBDA b : Absent(m, b))

\* The outer loop over allPages (main.go:296-302).
RECURSIVE MissingLoop(_, _, _)
MissingLoop(acc, pages, m) ==
    IF pages = <<>>
    THEN acc
    ELSE MissingLoop(MissingOfPage(acc, Head(pages).Data, m), Tail(pages), m)

\* The same loops with the missing slice kept free of repeated filenames.
MissingDedup(pages, fs) ==
    LET all == MissingLoop(<<>>, pages, DeviceFilesMap(fs))
        first(k) == \A j \in 1..(k - 1) : all[j].Filename # all[k].Filename
        RECURSIVE keep(_)
        keep(k) == IF k = 0 THEN <<>>
                   ELSE IF first(k) THEN Append(keep(k - 1), all[k])
                   ELSE keep(k - 1)
    IN  keep(Len(all))
Missing(pages, fs) == MissingLoop(<<>>, pages, DeviceFilesMap(fs))

Reconcile ==
    /\ Running /\ pc = "reconcile"
    /\ missing' = Missing(allPages, files)
    /\ syncIdx' = 1
    /\ pc' = "sync"
    /\ UNCHANGED << srv, listVars, fanVars, step, calls, logged, pushed,
                    inFlight, tmpFiles, endVars >>

-----------------------------------------------------------------------------
(* The sync loop, main.go:317-322, and downloadAndPushBeatmap, main.go:197-243 *)

\* The beatmap of the current loop iteration.
Bm == missing[syncIdx]

\* The loop index after a call returned an error: the loop goes on
\* (main.go:319-321 only prints).
BreakOnError(k) == Len(missing) + 1
AfterError(k) == k + 1

\* cmd.CombinedOutput() (main.go:229) returns when the subprocess has ended.
PushNotAwaited == "remove"
AfterPushStart == "pushing"

\* downloadAndPushBeatmap(bm, serial, remoteDir) is called (main.go:318) and
\* issues http.Get (main.go:200).
Invoke ==
    /\ Running /\ pc = "sync" /\ step = "idle"
    /\ syncIdx <= Len(missing)
    /\ calls' = Append(calls, Bm)
    /\ step' = "get"
    /\ UNCHANGED << srv, pc, listVars, fanVars, missing, syncIdx, logged,
                    pushed, inFlight, tmpFiles, endVars >>

\* The call returns an error; main prints it and moves on (main.go:319-321).
ReturnErr ==
    /\ logged' = Append(logged, syncIdx)
    /\ syncIdx' = AfterError(syncIdx)
    /\ step' = "idle"

\* http.Get fails or the status is not 200 (main.go:201-208).
DownloadErr ==
    /\ Running /\ pc = "sync" /\ step = "get"
    /\ ReturnErr
    /\ UNCHANGED << srv, pc, listVars, fanVars, missing, calls, pushed,
                    inFlight, tmpFiles, endVars >>

\* Status 200 (main.go:206).
DownloadOk ==
    /\ Running /\ pc = "sync" /\ step = "get"
    /\ step' = "save"
    /\ UNCHANGED << srv, pc, listVars, fanVars, missing, syncIdx, calls,
                    logged, pushed, inFlight, tmpFiles, endVars >>

\* os.Create and io.Copy succeed (main.go:211-221).
SaveOk ==
    /\ Running /\ pc = "sync" /\ step = "save"
    /\ tmpFiles' = tmpFiles \cup {Bm.Filename}
    /\ step' = "push"
    /\ UNCHANGED << srv, pc, listVars, fanVars, missing, syncIdx, calls,
                    logged, pushed, inFlight, endVars >>

\* os.Create fails (no file) or io.Copy fails (the file stays), main.go:213, 219.
SaveErr ==
    /\ Running /\ pc = "sync" /\ step = "save"
    /\ \E created \in BOOLEAN :
          tmpFiles' = IF created THEN tmpFiles \cup {Bm.Filename} ELSE tmpFiles
    /\ ReturnErr
    /\ UNCHANGED << srv, pc, listVars, fanVars, missing, calls, pushed,
                    inFlight, endVars >>

\* adb push starts (main.go:226-229).
PushStart ==
    /\ Running /\ pc = "sync" /\ step = "push"
    /\ inFlight' = inFlight + 1
    /\ step' = AfterPushStart
    /\ UNCHANGED << srv, pc, listVars, fanVars, missing, syncIdx, calls,
                    logged, pushed, tmpFiles, endVars >>

\* adb push ends with an error (main.go:230-232); the temp file stays.
PushErr ==
    /\ Running /\ pc = "sync" /\ step = "pushing"
    /\ inFlight' = inFlight - 1
    /\ ReturnErr
    /\ UNCHANGED << srv, pc, listVars, fanVars, missing, calls, pushed,
                    tmpFiles, endVars >>

\* adb push ends well (main.go:234).
PushOk ==
    /\ Running /\ pc = "sync" /\ step = "pushing"
    /\ inFlight' = inFlight - 1
    /\ pushed' = Append(pushed, Bm)
    /\ step' = "remove"
    /\ UNCHANGED << srv, pc, listVars, fanVars, missing, syncIdx, calls,
                    logged, tmpFiles, endVars >>

\* os.Remove (main.go:237-240): a failure is only a warning; return nil.
Cleanup ==
    /\ Running /\ pc = "sync" /\ step = "remove"
    /\ \E removed \in BOOLEAN :
          tmpFiles' = IF removed THEN tmpFiles \ {Bm.Filename} ELSE tmpFiles
    /\ syncIdx' = syncIdx + 1
    /\ step' = "idle"
    /\ UNCHANGED << srv, pc, listVars, fanVars, missing, calls, logged,
                    pushed, inFlight, endVars >>

\* The range loop over missing is exhausted; main returns (main.go:322-324).
Finish ==
    /\ Running /\ pc = "sync" /\ step = "idle"
    /\ syncIdx > Len(missing)
    /\ pc' = "done"
    /\ UNCHANGED << srv, listVars, fanVars, syncVars, endVars >>

-----------------------------------------------------------------------------
(* The run *)

MainFanIn ==
    \/ ListDeviceFolderOk \/ ListDeviceFolderErr
    \/ FetchFirstOk \/ FetchFirstErr \/ MainFatal
    \/ Spawn \/ SpawnEnd \/ Wait \/ Close \/ Drain \/ Return

MainSync ==
    \/ Reconcile \/ Invoke
    \/ DownloadErr \/ DownloadOk \/ SaveOk \/ SaveErr
    \/ PushStart \/ PushErr \/ PushOk \/ Cleanup \/ Finish

TaskStep(i) ==
    \/ TaskFetchOk(i) \/ TaskFetchErr(i) \/ TaskFatal(i)
    \/ TaskSend(i) \/ TaskDone(i)

Next ==
    \/ MainFanIn
    \/ MainSync
    \/ \E i \in Pages : TaskStep(i)

Spec == Init /\ [][Next]_vars

\* The run up to the return of fetchAllPagesConcurrently.  The Go scheduler
\* runs every runnable goroutine, and the 10 s client timeout (main.go:43)
\* ends every request.
FanInNext ==
    \/ MainFanIn
    \/ \E i \in Pages : TaskStep(i)

FanInSpec ==
    /\ Init /\ [][FanInNext]_vars
    /\ WF_vars(MainFanIn)
    /\ \A i \in Pages : WF_vars(TaskStep(i))

-----------------------------------------------------------------------------
(* Properties *)

\* fetchAllPagesConcurrently has returned to main.
Returned == pc \in {"reconcile", "sync", "done"}

\* The loops of main.go:293-302 have run.
Reconciled == pc \in {"sync", "done"}

\* The goroutine for page i has written its page to the channel.
Delivered(i) == task[i] \in {"sent", "done"}

\* All entries of the aggregate, page after page.
RECURSIVE Flatten(_)
Flatten(pages) ==
    IF pages = <<>> THEN <<>> ELSE Head(pages).Data \o Flatten(Tail(pages))

\* The entries of seq whose filename is no element of the list fs, in order.
RECURSIVE KeepAbsent(_, _)
KeepAbsent(seq, fs) ==
    IF seq = <<>> THEN <<>>
    ELSE IF \E k \in 1..Len(fs) : fs[k] = Head(seq).Filename
         THEN KeepAbsent(Tail(seq), fs)
         ELSE <<Head(seq)>> \o KeepAbsent(Tail(seq), fs)

Count(b, seq) == Cardinality({ k \in 1..Len(seq) : seq[k] = b })

\* C1: once fetchAllPagesConcurrently(N) has returned, allPages holds exactly
\* N pages and, for each index 1..N, exactly one of them is the response to
\* the fetch of that index; only the order depends on the interleaving.
C1_OnePagePerIndex ==
    Returned =>
        /\ Len(allPages) = totalPages
        /\ \A i \in 1..totalPages :
              Cardinality({ j \in 1..Len(allPages) : allPages[j] = Response(i) }) = 1

\* Two pages returned in the reverse of index order.
C1_Witness ==
    /\ Returned /\ totalPages >= 2
    /\ allPages[1].Page = 2 /\ allPages[2].Page = 1

\* C2: after any fetchPage failure (bootstrap or fan-out) main never gets
\* past the join: nothing is read from the channel, no missing slice is
\* built, and no download or transfer is started.
C2_FailFast ==
    fetchFailed =>
        /\ pc \in {"fatal", "spawn", "wait"}
        /\ allPages = <<>> /\ missing = <<>>
        /\ calls = <<>> /\ pushed = <<>> /\ inFlight = 0 /\ step = "idle"

\* Page 2 failed after page 1 had completed, and the process has exited.
C2_Witness ==
    /\ exited /\ totalPages >= 2
    /\ task[1] = "done" /\ task[2] = "fatal"

\* C3: the missing slice holds no entry whose filename is in the device
\* file list.
C3_Sound ==
    Reconciled =>
        \A k \in 1..Len(missing) : \A f \in 1..Len(files) :
            missing[k].Filename # files[f]

\* Device holds a.synth, the catalog is one page [a.synth, b.synth], and
\* only b.synth is missing.
C3_Witness ==
    /\ Reconciled
    /\ files = <<"a.synth">>
    /\ Len(allPages) = 1 /\ allPages[1].Data = <<BmA, BmB>>
    /\ missing = <<BmB>>

\* C4: the missing slice is the concatenation of the pages' entries, in
\* aggregate page order and in-page order, without the entries whose
\* filename is on the device; an entry occurring k times in the aggregate
\* and absent from the device occurs k times in it.
C4_Complete ==
    Reconciled =>
        /\ missing = KeepAbsent(Flatten(allPages), files)
        /\ \A b \in {BmA, BmB} :
              Count(b, missing) =
                  IF \E f \in 1..Len(files) : files[f] = b.Filename
                  THEN 0
                  ELSE Count(b, Flatten(allPages))

\* A filename of two pages, absent from the device, is listed twice, and
\* the two pages' entries keep their in-page order.
C4_Witness ==
    /\ Reconciled
    /\ Len(allPages) = 2
    /\ allPages[1].Data = <<BmB, BmA>> /\ allPages[2].Data = <<BmA, BmB>>
    /\ files = <<"b.synth">>
    /\ missing = <<BmA, BmA>>

\* C5: downloadAndPushBeatmap is invoked once per entry of the missing
\* slice, in its order, whatever calls fail: the calls so far are a prefix
\* of missing, one call per loop index, a failed index is logged once and
\* never revisited, and at the end the calls are the whole slice.
C5_BatchContinues ==
    /\ Len(calls) <= Len(missing)
    /\ calls = SubSeq(missing, 1, Len(calls))
    /\ pc = "sync" => Len(calls) = IF step = "idle" THEN syncIdx - 1 ELSE syncIdx
    /\ \A k \in 1..Len(logged) :
          /\ logged[k] \in 1..Len(calls)
          /\ \A j \in 1..(k - 1) : logged[j] < logged[k]
    /\ pc = "done" => calls = missing

\* The first entry failed and a later entry was still pushed.
C5_Witness ==
    /\ pc = "done"
    /\ Len(missing) >= 2
    /\ logged # <<>> /\ logged[1] = 1
    /\ pushed # <<>>

\* C6: main closes and reads the channel only after every one of the N
\* goroutines has written its page and called Done; no goroutine writes
\* after the close, and the function returns N pages.
C6_JoinBarrier ==
    /\ (pc \in {"close", "drain"} \/ Returned \/ closed \/ allPages # <<>>) =>
          /\ \A i \in 1..totalPages : task[i] = "done"
          /\ Len(results) + Len(allPages) = totalPages
    /\ Returned => Len(allPages) = totalPages
    /\ ~panicked

\* Main is in the middle of reading a channel that held two pages.
C6_Witness ==
    /\ pc = "drain" /\ closed
    /\ Len(results) = 1 /\ Len(allPages) = 1

\* C7 as stated: when the process has ended on a failed fetch task, every
\* sibling task that was launched has delivered its page.
C7_SiblingsComplete ==
    (exited /\ \E i \in Pages : task[i] = "fatal") =>
        \A j \in Pages : task[j] \in {"none", "fatal"} \/ Delivered(j)

\* C7 amended: once log.Fatalf has ended the process no goroutine takes
\* another step, so a sibling that has not delivered its page by then never
\* delivers it.
C7_ExitStopsSiblings ==
    [][exited => UNCHANGED << task, got, results, wg, allPages >>]_vars

\* The process has exited on a failed task while a sibling was still
\* fetching or about to send.
C7_Witness ==
    /\ exited
    /\ \E i \in Pages : task[i] = "fatal"
    /\ \E j \in Pages : task[j] \in {"fetch", "send"}

\* C8: at most one adb push is in flight; while one is in flight every fetch
\* goroutine has finished; a call for the next entry is made only after the
\* call for the previous one has returned.
C8_Sequential ==
    /\ inFlight <= 1
    /\ inFlight = 1 => step = "pushing"
    /\ (calls # <<>> \/ inFlight > 0) =>
          \A i \in Pages : task[i] \in {"none", "done"}
    /\ pc = "sync" => Len(calls) - (syncIdx - 1) \in {0, 1}

\* The transfer of the second missing entry is in flight.
C8_Witness ==
    /\ inFlight = 1 /\ syncIdx = 2 /\ step = "pushing"

\* Every launched fetch has returned a page (none failed).
AllFetched ==
    /\ pc \in {"spawn", "wait", "close", "drain", "reconcile"}
    /\ ~LoopCond
    /\ \A i \in 1..totalPages : task[i] \in {"send", "sent", "done"}

\* C9: a goroutine about to send always finds room in the channel; once all
\* N fetches have returned a page, fetchAllPagesConcurrently returns; with
\* N = 0 no goroutine is launched and the result is empty.
C9_NoDeadlock ==
    /\ [](\A i \in Pages : task[i] = "send" => (~closed /\ Len(results) < ChanCap))
    /\ []((Returned /\ totalPages = 0) =>
             (allPages = <<>> /\ \A i \in Pages : task[i] = "none"))
    /\ (AllFetched ~> Returned)

\* The channel is full and main is still waiting for the last Done.
C9_Witness ==
    /\ pc = "wait" /\ totalPages >= 2
    /\ Len(results) = totalPages
    /\ \E i \in Pages : task[i] = "sent"

\* C10: when listDeviceFolder fails, files is empty and the run goes on; the
\* missing slice is then the whole aggregate, every entry of it is handed to
\* downloadAndPushBeatmap, and all of them are pushed when no download or
\* transfer fails.
C10_ListFailure ==
    listFailed =>
        /\ files = <<>>
        /\ pc # "list"
        /\ Reconciled => missing = Flatten(allPages)
        /\ pc = "done" =>
              /\ calls = Flatten(allPages)
              /\ logged = <<>> => pushed = Flatten(allPages)

\* The listing failed and the run ended with every catalog entry pushed.
C10_Witness ==
    /\ listFailed /\ pc = "done"
    /\ logged = <<>>
    /\ Len(pushed) >= 2 /\ pushed = Flatten(allPages)

=============================================================================
